---- MODULE Spec2Model ----
(***************************************************************************)
(* Model of app.py: a Streamlit script that is re-run from the top on      *)
(* every user interaction.  One action below is one complete run of        *)
(* main() for one interaction, including the run that st.rerun() starts.   *)
(* Text is modelled as sequences of one-character strings.                 *)
(***************************************************************************)
EXTENDS Naturals, Sequences, FiniteSets, TLC

VARIABLES
    session_state,   \* st.session_state: a mapping from the keys present to their values
    environ,         \* os.environ, restricted to the key the program writes
    Settings,        \* llama_index Settings: embed_model and llm
    HuggingFaceEmbedding, \* TRUE iff the conditional import at module load succeeded
    screen,          \* the section the last run rendered: its widgets are the ones a user can act on
    st_out,          \* the messages the last run left on the page (st.error / st.warning)
    run,             \* the interaction the last run handled, with its local results
    tmpfs,           \* the temporary paths that exist after the last run
    next_id,         \* identity given to the next query engine object constructed
    fn_in,           \* argument of the extractor call under test (extractor specifications)
    fn_out           \* what that extractor call returned and displayed

vars == <<session_state, environ, Settings, HuggingFaceEmbedding, screen, st_out,
          run, tmpfs, next_id, fn_in, fn_out>>

session_vars == <<session_state, environ, Settings, HuggingFaceEmbedding, screen,
                  st_out, run, tmpfs, next_id>>

-----------------------------------------------------------------------------
(* Bounds of the model *)

\* questions answered in one session
MaxChat == 2

\* indexes built in one session
MaxEngines == 2

\* entries of the directory given to the dispatcher
MaxFiles == 2

\* entries of an archive uploaded in a session
MaxUploadFiles == 1

\* cells of a table row
MaxCells == 2

\* rows of a table
MaxRows == 2

\* slides of a presentation
MaxSlides == 2


-----------------------------------------------------------------------------
(* Python string operations, on sequences of characters *)

Whitespace == {" ", "\n", "\t"}

\* str.startswith(prefix)
startswith(s, prefix) ==
    /\ Len(s) >= Len(prefix)
    /\ SubSeq(s, 1, Len(prefix)) = prefix

RECURSIVE lstrip(_)
lstrip(s) ==
    IF s # <<>> /\ Head(s) \in Whitespace THEN lstrip(Tail(s)) ELSE s

RECURSIVE rstrip(_)
rstrip(s) ==
    IF s # <<>> /\ s[Len(s)] \in Whitespace THEN rstrip(SubSeq(s, 1, Len(s) - 1)) ELSE s

\* str.strip()
strip(s) == rstrip(lstrip(s))

\* sep.join(parts)
RECURSIVE join(_, _)
join(sep, parts) ==
    IF parts = <<>> THEN <<>>
    ELSE IF Len(parts) = 1 THEN parts[1]
    ELSE parts[1] \o sep \o join(sep, Tail(parts))

\* the sequences over S of length at most n
SeqUpTo(S, n) == UNION {[1..k -> S] : k \in 0..n}

-----------------------------------------------------------------------------
(* Values *)

None == [obj |-> "None"]

\* the object criar_indice returns: each call constructs a new one
QueryEngine(id) == [obj |-> "query_engine", id |-> id]

Message(level, text, arg) == [level |-> level, text |-> text, arg |-> arg]

\* a run that handled no interaction: widget is the button pressed or file given,
\* input its text, outcome how the external calls of the run ended
NoRun == [widget |-> "none", input |-> <<>>, outcome |-> "none", exception |-> "none",
          queried |-> FALSE, num_arquivos |-> 0, n_documentos |-> 0]

-----------------------------------------------------------------------------
(* Credential configuration *)

sk_prefix == <<"s", "k", "-">>

\* what a user can type in the credential field
ApiKeys ==
    { <<>>,
      <<"a", "b", "c">>,
      <<"x", "s", "k", "-">>,
      <<"s", "k">>,
      <<"s", "k", "-">>,
      <<"s", "k", "-", "A">>,
      <<"s", "k", "-", "B">> }

\* how the constructors called by configurar_sistema can end
ConfigOutcomes == {"ok", "embed_raises", "llm_raises"}

\* configurar_sistema(): returns its result, the settings it leaves and what it displays
configurar_sistema(settings, hf, outcome) ==
    IF hf /\ outcome = "embed_raises"
    THEN [ret |-> FALSE, Settings |-> settings,
          out |-> << Message("error", "Erro na configuracao", <<>>) >>]
    ELSE LET s1 == IF hf THEN [settings EXCEPT !.embed_model = "HuggingFaceEmbedding"]
                         ELSE settings
         IN  IF outcome = "llm_raises"
             THEN [ret |-> FALSE, Settings |-> s1,
                   out |-> << Message("error", "Erro na configuracao", <<>>) >>]
             ELSE [ret |-> TRUE, Settings |-> [s1 EXCEPT !.llm = "OpenAI"], out |-> <<>>]

\* modal_api_key(), lines 234-235
modal_api_key_init(ss) ==
    IF "api_key_configured" \in DOMAIN ss THEN ss
    ELSE ("api_key_configured" :> FALSE) @@ ss

\* main(), lines 284-287
main_init(ss) ==
    IF "documentos_processados" \in DOMAIN ss THEN ss
    ELSE ("documentos_processados" :> FALSE) @@ ("query_engine" :> None)
         @@ ("num_documentos" :> 0) @@ ss

\* main(), lines 376-377
chat_init(ss) ==
    IF "chat_history" \in DOMAIN ss THEN ss
    ELSE ("chat_history" :> <<>>) @@ ss

\* variant: main() goes on after the credential form instead of returning
main_passive_NoGate(ss) ==
    LET s2 == main_init(modal_api_key_init(ss)) IN
    IF ~s2.api_key_configured
    THEN [ss |-> s2, screen |-> "modal"]
    ELSE IF ~s2.documentos_processados
         THEN [ss |-> s2, screen |-> "upload"]
         ELSE [ss |-> chat_init(s2), screen |-> "chat"]

\* a run of main() in which no button is pressed and no file is held by the
\* uploader: the first page load, and the run st.rerun() starts
main_passive(ss) ==
    LET s1 == modal_api_key_init(ss) IN
    IF ~s1.api_key_configured
    THEN [ss |-> s1, screen |-> "modal"]
    ELSE LET s2 == main_init(s1) IN
         IF ~s2.documentos_processados
         THEN [ss |-> s2, screen |-> "upload"]
         ELSE [ss |-> chat_init(s2), screen |-> "chat"]

-----------------------------------------------------------------------------
(* processar_pptx *)

\* str(i) for a natural number
Digit(d) ==
    CASE d = 0 -> "0" [] d = 1 -> "1" [] d = 2 -> "2" [] d = 3 -> "3" [] d = 4 -> "4"
      [] d = 5 -> "5" [] d = 6 -> "6" [] d = 7 -> "7" [] d = 8 -> "8" [] d = 9 -> "9"

RECURSIVE str(_)
str(n) == IF n < 10 THEN << Digit(n) >> ELSE str(n \div 10) \o << Digit(n % 10) >>

cell_separator == <<" ", "|", " ">>

table_prefix == <<"T", "a", "b", "e", "l", "a", ":", " ">>

slide_header_open == <<"\n", "=", "=", "=", " ", "S", "L", "I", "D", "E", " ">>

slide_header_close == <<" ", "=", "=", "=", "\n">>

\* lines 104-106: the text one table row adds to the slide (a row is its cells' texts)
row_content(row) ==
    LET row_text == join(cell_separator, [c \in DOMAIN row |-> strip(row[c])]) IN
    IF strip(row_text) # <<>> THEN table_prefix \o row_text \o <<"\n">> ELSE <<>>

RECURSIVE table_content(_)
table_content(rows) ==
    IF rows = <<>> THEN <<>> ELSE row_content(Head(rows)) \o table_content(Tail(rows))

\* lines 97-106: the text one shape adds to the slide
shape_content(shape) ==
    (IF shape.has_text /\ strip(shape.text) # <<>> THEN shape.text \o <<"\n">> ELSE <<>>)
    \o (IF shape.has_table THEN table_content(shape.rows) ELSE <<>>)

RECURSIVE shapes_content(_)
shapes_content(shapes) ==
    IF shapes = <<>> THEN <<>> ELSE shape_content(Head(shapes)) \o shapes_content(Tail(shapes))

\* variant: enumerate() without its start argument numbers the slides from 0
slide_content_ZeroBased(i, slide) ==
    slide_header_open \o str(i - 1) \o slide_header_close \o shapes_content(slide)

\* lines 93-108: the text of slide number i
slide_content(i, slide) ==
    slide_header_open \o str(i) \o slide_header_close \o shapes_content(slide)

\* processar_pptx(caminho_arquivo): conteudo is what the file holds, either a
\* presentation (its slides) or something Presentation() fails to parse
processar_pptx(arquivo, conteudo) ==
    IF ~conteudo.ok
    THEN [doc |-> None, num_slides |-> 0,
          out |-> << Message("error", "Erro ao processar PPTX", arquivo) >>]
    ELSE LET slides == conteudo.prs
             slides_texto == [i \in DOMAIN slides |-> slide_content(i, slides[i])]
         IN  [doc |-> [obj |-> "Document",
                       text |-> join(<<"\n">>, slides_texto),
                       metadata |-> [file_name |-> arquivo, file_type |-> <<"p", "p", "t", "x">>,
                                     total_slides |-> Len(slides), source |-> "presentation"]],
              num_slides |-> Len(slides),
              out |-> <<>>]

-----------------------------------------------------------------------------
(* processar_documentos *)

formatos_suportados ==
    { <<".", "p", "d", "f">>, <<".", "d", "o", "c", "x">>, <<".", "p", "p", "t", "x">>,
      <<".", "t", "x", "t">>, <<".", "m", "d">> }

pptx_ext == <<".", "p", "p", "t", "x">>

\* str.lower(), on the letters file names are made of
lower_char(c) ==
    CASE c = "P" -> "p" [] c = "D" -> "d" [] c = "F" -> "f" [] c = "T" -> "t"
      [] c = "X" -> "x" [] c = "M" -> "m" [] c = "O" -> "o" [] c = "C" -> "c"
      [] OTHER -> c

lower(s) == [i \in DOMAIN s |-> lower_char(s[i])]

\* pathlib's Path(name).suffix: from the last dot, unless the dot is first or last
suffix(name) ==
    LET dots == {i \in DOMAIN name : name[i] = "."} IN
    IF dots = {} THEN <<>>
    ELSE LET i == CHOOSE d \in dots : \A e \in dots : e <= d IN
         IF i = 1 \/ i = Len(name) THEN <<>> ELSE SubSeq(name, i, Len(name))

\* lines 159-175: the generic loader on one file, with the metadata update
load_generic(arquivo, extensao, conteudo) ==
    [i \in DOMAIN conteudo.textos |->
        [obj |-> "Document",
         text |-> conteudo.textos[i],
         metadata |-> [file_name |-> arquivo, file_type |-> Tail(extensao),
                       source |-> "document"]]]

\* lines 145-178: one iteration of the loop, from the documents and messages so far
processar_arquivo(acc, entrada) ==
    LET arquivo == entrada.arquivo
        extensao == lower(suffix(arquivo))
    IN  IF extensao = pptx_ext
        THEN LET r == processar_pptx(arquivo, entrada.conteudo) IN
             [documentos |-> IF r.doc # None THEN Append(acc.documentos, r.doc)
                             ELSE acc.documentos,
              out |-> acc.out \o r.out]
        ELSE IF ~entrada.conteudo.ok
             THEN [documentos |-> acc.documentos,
                   out |-> Append(acc.out, Message("warning", "Erro ao processar", arquivo))]
             ELSE [documentos |-> acc.documentos \o load_generic(arquivo, extensao, entrada.conteudo),
                   out |-> acc.out]

\* variant: the first file that fails ends the loop
RECURSIVE processar_loop_StopsOnError(_, _)
processar_loop_StopsOnError(acc, entradas) ==
    IF entradas = <<>> THEN acc
    ELSE IF ~Head(entradas).conteudo.ok THEN processar_arquivo(acc, Head(entradas))
    ELSE processar_loop_StopsOnError(processar_arquivo(acc, Head(entradas)), Tail(entradas))

RECURSIVE processar_loop(_, _)
processar_loop(acc, entradas) ==
    IF entradas = <<>> THEN acc
    ELSE processar_loop(processar_arquivo(acc, Head(entradas)), Tail(entradas))

\* lines 133-136
is_supported(entrada) == lower(suffix(entrada.arquivo)) \in formatos_suportados

\* processar_documentos(pasta_temp): pasta is the directory listing, in os.listdir order
processar_documentos(pasta) ==
    LET arquivos == SelectSeq(pasta, is_supported) IN
    IF arquivos = <<>>
    THEN [documentos |-> <<>>, num_arquivos |-> 0, out |-> <<>>]
    ELSE LET r == processar_loop([documentos |-> <<>>, out |-> <<>>], arquivos) IN
         [documentos |-> r.documentos, num_arquivos |-> Len(arquivos), out |-> r.out]

\* criar_indice(documentos): the library call succeeds or raises
criar_indice(documentos, indice_ok, id) ==
    IF indice_ok
    THEN [query_engine |-> QueryEngine(id), out |-> <<>>]
    ELSE [query_engine |-> None,
          out |-> << Message("error", "Erro ao criar indice", <<>>) >>]

-----------------------------------------------------------------------------
(* Inputs of a session *)

\* what a file of the archive can hold: something no extractor can read, or
\* a presentation (for the presentation extractor) and the texts the generic
\* loader splits it into
Conteudos ==
    { [ok |-> FALSE, prs |-> <<>>, textos |-> <<>>],
      [ok |-> TRUE, prs |-> <<>>, textos |-> <<>>],
      [ok |-> TRUE,
       prs |-> << << [has_text |-> TRUE, text |-> <<"a">>, has_table |-> FALSE, rows |-> <<>>] >> >>,
       textos |-> << <<"x">>, <<"y">> >>] }

Arquivos ==
    { <<"a", ".", "p", "d", "f">>,
      <<"b", ".", "P", "P", "T", "X">>,
      <<"c", ".", "z", "i", "p">> }

Entradas == [arquivo : Arquivos, conteudo : Conteudos]

\* directory listings of at most n entries: no two entries have the same name
Listings(n) ==
    {p \in SeqUpTo(Entradas, n) :
        \A i, j \in DOMAIN p : i # j => p[i].arquivo # p[j].arquivo}

Pastas == Listings(MaxFiles)

\* an uploaded blob: a ZIP archive of a directory, or bytes zipfile rejects
Uploads == {[valid |-> FALSE, pasta |-> <<>>]} \cup {[valid |-> TRUE, pasta |-> p] : p \in Listings(MaxUploadFiles)}

Perguntas == { <<>>, <<" ">>, <<" ", "\n">>, <<"a">>, <<" ", "b", " ">> }

Respostas == { <<"r">> }

-----------------------------------------------------------------------------
(* The temporary directory of an upload cycle *)

TempPaths == {"temp_dir", "temp_dir/upload.zip", "temp_dir/extracted"}

\* lines 308-317: what exists when the with-block body is left
temp_created(fs, valid) ==
    fs \cup {"temp_dir", "temp_dir/upload.zip"}
       \cup (IF valid THEN {"temp_dir/extracted"} ELSE {})

\* variant: the directory is removed by a statement placed after the extraction,
\* which an exception raised before it skips
temp_cleanup_AfterExtraction(fs) ==
    IF "temp_dir/extracted" \in fs THEN fs \ TempPaths ELSE fs

\* tempfile.TemporaryDirectory.__exit__: runs on every way out of the with-block
temp_cleanup(fs) == fs \ TempPaths

-----------------------------------------------------------------------------
(* The session *)

Init ==
    /\ session_state = <<>>
    /\ environ = <<>>
    /\ Settings = [embed_model |-> "default", llm |-> "default"]
    /\ HuggingFaceEmbedding \in BOOLEAN
    /\ screen = "none"
    /\ st_out = <<>>
    /\ run = NoRun
    /\ tmpfs = {}
    /\ next_id = 1
    /\ fn_in = [fn |-> "none"]
    /\ fn_out = [fn |-> "none"]

\* the page is loaded, or re-run by an interaction that presses no button
PageLoad ==
    LET r == main_passive(session_state) IN
    /\ session_state' = r.ss
    /\ screen' = r.screen
    /\ st_out' = <<>>
    /\ run' = [NoRun EXCEPT !.widget = "load"]
    /\ UNCHANGED <<environ, Settings, HuggingFaceEmbedding, tmpfs, next_id, fn_in, fn_out>>

\* variant: the session is marked configured whatever configurar_sistema returns
modal_submit_IgnoresResult(ss, env, settings, hf, api_key, outcome) ==
    IF api_key # <<>> /\ startswith(api_key, sk_prefix)
    THEN LET c == configurar_sistema(settings, hf, outcome) IN
         [ss |-> [ss EXCEPT !.api_key_configured = TRUE],
          environ |-> ("OPENAI_API_KEY" :> api_key) @@ env,
          Settings |-> c.Settings, rerun |-> TRUE, out |-> <<>>]
    ELSE [ss |-> ss, environ |-> env, Settings |-> settings, rerun |-> FALSE,
          out |-> << Message("error", "Por favor, insira uma API Key valida", <<>>) >>]

\* variant: the credential is stored before it is validated
modal_submit_StoresFirst(ss, env, settings, hf, api_key, outcome) ==
    LET env1 == ("OPENAI_API_KEY" :> api_key) @@ env IN
    IF api_key # <<>> /\ startswith(api_key, sk_prefix)
    THEN LET c == configurar_sistema(settings, hf, outcome) IN
         IF c.ret
         THEN [ss |-> [ss EXCEPT !.api_key_configured = TRUE], environ |-> env1,
               Settings |-> c.Settings, rerun |-> TRUE, out |-> <<>>]
         ELSE [ss |-> ss, environ |-> env1, Settings |-> c.Settings, rerun |-> FALSE,
               out |-> c.out \o << Message("error", "Erro na configuracao. Verifique sua API Key.", <<>>) >>]
    ELSE [ss |-> ss, environ |-> env1, Settings |-> settings, rerun |-> FALSE,
          out |-> << Message("error", "Por favor, insira uma API Key valida", <<>>) >>]

\* variant: a rejected submission also forgets the credential stored before
modal_submit_ClearsOnReject(ss, env, settings, hf, api_key, outcome) ==
    IF api_key # <<>> /\ startswith(api_key, sk_prefix)
    THEN LET env1 == ("OPENAI_API_KEY" :> api_key) @@ env
             c == configurar_sistema(settings, hf, outcome)
         IN  IF c.ret
             THEN [ss |-> [ss EXCEPT !.api_key_configured = TRUE], environ |-> env1,
                   Settings |-> c.Settings, rerun |-> TRUE, out |-> <<>>]
             ELSE [ss |-> ss, environ |-> env1, Settings |-> c.Settings, rerun |-> FALSE,
                   out |-> c.out \o << Message("error", "Erro na configuracao. Verifique sua API Key.", <<>>) >>]
    ELSE [ss |-> ss, environ |-> <<>>, Settings |-> settings, rerun |-> FALSE,
          out |-> << Message("error", "Por favor, insira uma API Key valida", <<>>) >>]

\* modal_api_key(), lines 251-261, after the button was pressed with api_key typed
modal_submit(ss, env, settings, hf, api_key, outcome) ==
    IF api_key # <<>> /\ startswith(api_key, sk_prefix)
    THEN LET env1 == ("OPENAI_API_KEY" :> api_key) @@ env
             c == configurar_sistema(settings, hf, outcome)
         IN  IF c.ret
             THEN [ss |-> [ss EXCEPT !.api_key_configured = TRUE], environ |-> env1,
                   Settings |-> c.Settings, rerun |-> TRUE, out |-> <<>>]
             ELSE [ss |-> ss, environ |-> env1, Settings |-> c.Settings, rerun |-> FALSE,
                   out |-> c.out \o << Message("error", "Erro na configuracao. Verifique sua API Key.", <<>>) >>]
    ELSE [ss |-> ss, environ |-> env, Settings |-> settings, rerun |-> FALSE,
          out |-> << Message("error", "Por favor, insira uma API Key valida", <<>>) >>]

\* the configure button is pressed
ConfigButton(api_key, outcome) ==
    /\ screen = "modal"
    /\ outcome = "embed_raises" => HuggingFaceEmbedding
    /\ LET s1 == modal_api_key_init(session_state)
           m == modal_submit(s1, environ, Settings, HuggingFaceEmbedding, api_key, outcome)
           after == IF m.rerun THEN main_passive(m.ss) ELSE [ss |-> m.ss, screen |-> "modal"]
       IN  /\ ~s1.api_key_configured
           /\ session_state' = after.ss
           /\ screen' = after.screen
           /\ environ' = m.environ
           /\ Settings' = m.Settings
           /\ st_out' = m.out
           /\ run' = [NoRun EXCEPT !.widget = "config_button", !.input = api_key,
                                   !.outcome = IF api_key # <<>> /\ startswith(api_key, sk_prefix)
                                               THEN outcome ELSE "none"]
    /\ UNCHANGED <<HuggingFaceEmbedding, tmpfs, next_id, fn_in, fn_out>>

\* variant: the document count is stored before the index is known to exist
upload_cycle_CountsEarly(ss, pasta, indice_ok, id) ==
    LET d == processar_documentos(pasta) IN
    IF d.documentos # <<>>
    THEN LET c == criar_indice(d.documentos, indice_ok, id)
             s1 == [ss EXCEPT !.num_documentos = Len(d.documentos)]
         IN  IF c.query_engine # None
             THEN [ss |-> [s1 EXCEPT !.documentos_processados = TRUE,
                                     !.query_engine = c.query_engine],
                   rerun |-> TRUE, out |-> <<>>, d |-> d]
             ELSE [ss |-> s1, rerun |-> FALSE, d |-> d,
                   out |-> d.out \o c.out
                           \o << Message("error", "Erro ao criar indice dos documentos", <<>>) >>]
    ELSE [ss |-> ss, rerun |-> FALSE, d |-> d,
          out |-> d.out \o << Message("error", "Nenhum documento valido encontrado no ZIP", <<>>) >>]

\* variant: the result of criar_indice is stored without being tested
upload_cycle_SkipsEngineCheck(ss, pasta, indice_ok, id) ==
    LET d == processar_documentos(pasta) IN
    IF d.documentos # <<>>
    THEN LET c == criar_indice(d.documentos, indice_ok, id) IN
         [ss |-> [ss EXCEPT !.documentos_processados = TRUE,
                            !.query_engine = c.query_engine,
                            !.num_documentos = Len(d.documentos)],
          rerun |-> TRUE, out |-> <<>>, d |-> d]
    ELSE [ss |-> ss, rerun |-> FALSE, d |-> d,
          out |-> d.out \o << Message("error", "Nenhum documento valido encontrado no ZIP", <<>>) >>]

\* main(), lines 320-349: the upload cycle once the archive is extracted
upload_cycle(ss, pasta, indice_ok, id) ==
    LET d == processar_documentos(pasta) IN
    IF d.documentos # <<>>
    THEN LET c == criar_indice(d.documentos, indice_ok, id) IN
         IF c.query_engine # None
         THEN [ss |-> [ss EXCEPT !.documentos_processados = TRUE,
                                 !.query_engine = c.query_engine,
                                 !.num_documentos = Len(d.documentos)],
               rerun |-> TRUE, out |-> <<>>, d |-> d]
         ELSE [ss |-> ss, rerun |-> FALSE, d |-> d,
               out |-> d.out \o c.out
                       \o << Message("error", "Erro ao criar indice dos documentos", <<>>) >>]
    ELSE [ss |-> ss, rerun |-> FALSE, d |-> d,
          out |-> d.out \o << Message("error", "Nenhum documento valido encontrado no ZIP", <<>>) >>]

\* a file is given to the uploader
Upload(upload, indice_ok) ==
    /\ screen = "upload"
    /\ next_id <= MaxEngines
    /\ LET s1 == main_init(modal_api_key_init(session_state)) IN
       /\ s1.api_key_configured
       /\ ~s1.documentos_processados
       /\ tmpfs' = temp_cleanup(temp_created(tmpfs, upload.valid))
       /\ IF ~upload.valid
          THEN \* zipfile.ZipFile raises BadZipFile, which nothing catches
               /\ session_state' = s1
               /\ screen' = "upload"
               /\ st_out' = << Message("exception", "BadZipFile", <<>>) >>
               /\ run' = [NoRun EXCEPT !.widget = "file_uploader", !.exception = "BadZipFile"]
               /\ next_id' = next_id
          ELSE LET u == upload_cycle(s1, upload.pasta, indice_ok, next_id)
                   after == IF u.rerun THEN main_passive(u.ss)
                            ELSE [ss |-> u.ss, screen |-> "upload"]
               IN  /\ session_state' = after.ss
                   /\ screen' = after.screen
                   /\ st_out' = u.out
                   /\ run' = [NoRun EXCEPT !.widget = "file_uploader",
                                           !.outcome = IF u.d.documentos = <<>> THEN "none"
                                                       ELSE IF indice_ok THEN "ok"
                                                       ELSE "indice_raises",
                                           !.num_arquivos = u.d.num_arquivos,
                                           !.n_documentos = Len(u.d.documentos)]
                   /\ next_id' = IF u.rerun THEN next_id + 1 ELSE next_id
    /\ UNCHANGED <<environ, Settings, HuggingFaceEmbedding, fn_in, fn_out>>

\* variant: reload also empties the transcript
reload_ClearsChat(ss) ==
    [ss EXCEPT !.documentos_processados = FALSE,
               !.query_engine = None,
               !.num_documentos = 0,
               !.chat_history = <<>>]

\* variant: reload drops the flag but keeps the query engine
reload_KeepsEngine(ss) ==
    [ss EXCEPT !.documentos_processados = FALSE,
               !.num_documentos = 0]

\* variant: reload resets the credential flag with the rest
reload_ResetsAll(ss) ==
    [ss EXCEPT !.api_key_configured = FALSE,
               !.documentos_processados = FALSE,
               !.query_engine = None,
               !.num_documentos = 0]

\* main(), lines 360-364
reload(ss) ==
    [ss EXCEPT !.documentos_processados = FALSE,
               !.query_engine = None,
               !.num_documentos = 0]

\* the reload button is pressed
Recarregar ==
    /\ screen = "chat"
    /\ LET s1 == main_init(modal_api_key_init(session_state))
           after == main_passive(reload(s1))
       IN  /\ s1.api_key_configured
           /\ s1.documentos_processados
           /\ session_state' = after.ss
           /\ screen' = after.screen
    /\ st_out' = <<>>
    /\ run' = [NoRun EXCEPT !.widget = "reload"]
    /\ UNCHANGED <<environ, Settings, HuggingFaceEmbedding, tmpfs, next_id, fn_in, fn_out>>

\* variant: the new pair is put at the front of the transcript
ask_Prepends(ss, pergunta, query_ok, resposta) ==
    IF strip(pergunta) # <<>>
    THEN IF query_ok
         THEN [ss |-> [ss EXCEPT !.chat_history =
                          << [pergunta |-> pergunta, resposta |-> resposta] >> \o @],
               queried |-> TRUE, out |-> <<>>]
         ELSE [ss |-> ss, queried |-> TRUE,
               out |-> << Message("error", "Erro ao processar pergunta", <<>>) >>]
    ELSE [ss |-> ss, queried |-> FALSE, out |-> <<>>]

\* variant: the question is tested without being stripped
ask_NoStrip(ss, pergunta, query_ok, resposta) ==
    IF pergunta # <<>>
    THEN IF query_ok
         THEN [ss |-> [ss EXCEPT !.chat_history =
                          Append(@, [pergunta |-> pergunta, resposta |-> resposta])],
               queried |-> TRUE, out |-> <<>>]
         ELSE [ss |-> ss, queried |-> TRUE,
               out |-> << Message("error", "Erro ao processar pergunta", <<>>) >>]
    ELSE [ss |-> ss, queried |-> FALSE, out |-> <<>>]

\* variant: the transcript is assigned the new pair instead of being appended to
ask_Replaces(ss, pergunta, query_ok, resposta) ==
    IF strip(pergunta) # <<>>
    THEN IF query_ok /\ ss.query_engine # None
         THEN [ss |-> [ss EXCEPT !.chat_history =
                          << [pergunta |-> pergunta, resposta |-> resposta] >>],
               queried |-> TRUE, out |-> <<>>]
         ELSE [ss |-> ss, queried |-> TRUE,
               out |-> << Message("error", "Erro ao processar pergunta", <<>>) >>]
    ELSE [ss |-> ss, queried |-> FALSE, out |-> <<>>]

\* main(), lines 391-402: enviar was pressed with pergunta typed; resposta is
\* what the query engine answers when query_ok, else it raises; None has no
\* query method, which raises as well
ask(ss, pergunta, query_ok, resposta) ==
    IF strip(pergunta) # <<>>
    THEN IF query_ok /\ ss.query_engine # None
         THEN [ss |-> [ss EXCEPT !.chat_history =
                          Append(@, [pergunta |-> pergunta, resposta |-> resposta])],
               queried |-> TRUE, out |-> <<>>]
         ELSE [ss |-> ss, queried |-> TRUE,
               out |-> << Message("error", "Erro ao processar pergunta", <<>>) >>]
    ELSE [ss |-> ss, queried |-> FALSE, out |-> <<>>]

\* the send button is pressed
Enviar(pergunta, query_ok, resposta) ==
    /\ screen = "chat"
    /\ LET s1 == chat_init(main_init(modal_api_key_init(session_state)))
           a == ask(s1, pergunta, query_ok, resposta)
       IN  /\ s1.api_key_configured
           /\ s1.documentos_processados
           /\ Len(s1.chat_history) < MaxChat
           /\ session_state' = a.ss
           /\ st_out' = a.out
           /\ run' = [NoRun EXCEPT !.widget = "enviar", !.input = pergunta,
                                   !.queried = a.queried,
                                   !.outcome = IF ~a.queried THEN "none"
                                               ELSE IF query_ok /\ s1.query_engine # None THEN "ok"
                                               ELSE "query_raises"]
    /\ screen' = "chat"
    /\ UNCHANGED <<environ, Settings, HuggingFaceEmbedding, tmpfs, next_id, fn_in, fn_out>>

Next ==
    \/ PageLoad
    \/ \E api_key \in ApiKeys, outcome \in ConfigOutcomes : ConfigButton(api_key, outcome)
    \/ \E upload \in Uploads, indice_ok \in BOOLEAN : Upload(upload, indice_ok)
    \/ Recarregar
    \/ \E pergunta \in Perguntas, query_ok \in BOOLEAN, resposta \in Respostas :
           Enviar(pergunta, query_ok, resposta)

Spec == Init /\ [][Next]_vars

TypeOK ==
    /\ screen \in {"none", "modal", "upload", "chat"}
    /\ DOMAIN session_state \subseteq
           {"api_key_configured", "documentos_processados", "query_engine",
            "num_documentos", "chat_history"}
    /\ tmpfs \subseteq TempPaths

-----------------------------------------------------------------------------
(* The extractors on their own *)

CellTexts == { <<>>, <<" ">>, <<" ", "a", " ">> }

Rows == SeqUpTo(CellTexts, MaxCells)

Tables == SeqUpTo(Rows, MaxRows)

TextShape(text) == [has_text |-> TRUE, text |-> text, has_table |-> FALSE, rows |-> <<>>]

TableShape(rows) == [has_text |-> FALSE, text |-> <<>>, has_table |-> TRUE, rows |-> rows]

Picture == [has_text |-> FALSE, text |-> <<>>, has_table |-> FALSE, rows |-> <<>>]

\* presentations of one slide holding one table
TableDecks == { << << TableShape(rows) >> >> : rows \in Tables }

SlidePool ==
    { <<>>,
      << TextShape(<<"a">>) >>,
      << TextShape(<<" ">>), Picture >>,
      << TextShape(<<"a", "\n", "b">>), TableShape(<< << <<" ", "a", " ">>, <<>> >> >>) >> }

\* presentations of up to MaxSlides slides
SlideDecks == SeqUpTo(SlidePool, MaxSlides)

Presentations == TableDecks \cup SlideDecks

InitPptx ==
    /\ session_state = <<>>
    /\ environ = <<>>
    /\ Settings = [embed_model |-> "default", llm |-> "default"]
    /\ HuggingFaceEmbedding = FALSE
    /\ screen = "none"
    /\ st_out = <<>>
    /\ run = NoRun
    /\ tmpfs = {}
    /\ next_id = 1
    /\ fn_in \in [fn : {"processar_pptx"},
                  arquivo : { <<"b", ".", "P", "P", "T", "X">> },
                  conteudo : {[ok |-> FALSE, prs |-> <<>>, textos |-> <<>>]}
                             \cup {[ok |-> TRUE, prs |-> p, textos |-> <<>>] : p \in Presentations}]
    /\ fn_out = [fn |-> "none"]

\* processar_pptx is called on the file
CallPptx ==
    /\ fn_in.fn = "processar_pptx"
    /\ fn_out.fn = "none"
    /\ fn_out' = [fn |-> "processar_pptx", ret |-> processar_pptx(fn_in.arquivo, fn_in.conteudo)]
    /\ UNCHANGED <<session_vars, fn_in>>

NextPptx == CallPptx

SpecPptx == InitPptx /\ [][NextPptx]_vars

InitDisp ==
    /\ session_state = <<>>
    /\ environ = <<>>
    /\ Settings = [embed_model |-> "default", llm |-> "default"]
    /\ HuggingFaceEmbedding = FALSE
    /\ screen = "none"
    /\ st_out = <<>>
    /\ run = NoRun
    /\ tmpfs = {}
    /\ next_id = 1
    /\ fn_in \in [fn : {"processar_documentos"}, pasta : Pastas]
    /\ fn_out = [fn |-> "none"]

\* processar_documentos is called on the directory
CallDisp ==
    /\ fn_in.fn = "processar_documentos"
    /\ fn_out.fn = "none"
    /\ fn_out' = [fn |-> "processar_documentos", ret |-> processar_documentos(fn_in.pasta)]
    /\ UNCHANGED <<session_vars, fn_in>>

NextDisp == CallDisp

SpecDisp == InitDisp /\ [][NextDisp]_vars

-----------------------------------------------------------------------------
(* Observations used by the properties *)

configured ==
    /\ "api_key_configured" \in DOMAIN session_state
    /\ session_state.api_key_configured

processed ==
    /\ "documentos_processados" \in DOMAIN session_state
    /\ session_state.documentos_processados

has_credential == "OPENAI_API_KEY" \in DOMAIN environ

has_chat == "chat_history" \in DOMAIN session_state

reported(level, text) == \E i \in DOMAIN st_out : st_out[i].level = level /\ st_out[i].text = text

\* the credentials of ApiKeys that start with sk-
AcceptedKeys == { <<"s", "k", "-">>, <<"s", "k", "-", "A">>, <<"s", "k", "-", "B">> }

\* the questions of Perguntas that are empty once trimmed
BlankPerguntas == { <<>>, <<" ">>, <<" ", "\n">> }

config_pressed == run.widget = "config_button"

-----------------------------------------------------------------------------
(* Credential configuration: C1, C2, C10 *)

\* C1 as stated: every submission of a credential starting with sk- stores the
\* credential and leaves the session CONFIGURED, also when configurar_sistema fails.
C1_AcceptedAlwaysConfigures ==
    (config_pressed /\ run.input \in AcceptedKeys)
        => (has_credential /\ environ["OPENAI_API_KEY"] = run.input /\ configured)

\* C1 amended: a submission of a credential starting with sk- always stores the
\* credential; the session becomes CONFIGURED (and shows the upload section)
\* exactly when configurar_sistema succeeded, and otherwise stays UNCONFIGURED
\* on the credential form with a configuration error reported.
C1_AcceptedConfiguresIffBackendsOk ==
    (config_pressed /\ run.input \in AcceptedKeys)
        => /\ has_credential /\ environ["OPENAI_API_KEY"] = run.input
           /\ configured <=> (run.outcome = "ok")
           /\ run.outcome = "ok" => (screen = "upload" /\ Settings.llm = "OpenAI")
           /\ run.outcome # "ok" =>
                 /\ screen = "modal"
                 /\ reported("error", "Erro na configuracao. Verifique sua API Key.")

C1_Witness ==
    /\ config_pressed /\ run.input = <<"s", "k", "-", "A">> /\ run.outcome = "ok"
    /\ configured /\ has_credential

\* C2: a submission that is empty or does not start with sk- leaves the session
\* UNCONFIGURED, changes neither the stored credential nor the backend settings,
\* and reports the validation error.
C2_RejectedChangesNothing ==
    [][ (run'.widget = "config_button" /\ run'.input \notin AcceptedKeys)
          => /\ ~configured'
             /\ environ' = environ
             /\ Settings' = Settings
             /\ \E i \in DOMAIN st_out' :
                    st_out'[i] = Message("error", "Por favor, insira uma API Key valida", <<>>) ]_vars

C2_Witness ==
    /\ config_pressed /\ run.input = <<"a", "b", "c">>
    /\ ~configured /\ screen = "modal"
    /\ reported("error", "Por favor, insira uma API Key valida")

\* C10 as stated: the credential variable is written at most once, and once
\* written it is never removed or overwritten.
C10_WrittenAtMostOnce ==
    [][ has_credential => environ' = environ ]_vars

\* C10 amended: the credential, once written, is never removed; it is written
\* only by a submission of a credential starting with sk-, which stores the
\* submitted value and can happen (repeatedly, overwriting) only while the
\* session is UNCONFIGURED; once CONFIGURED it never changes again.
C10_NeverClearedWrittenOnlyUnconfigured ==
    [][ /\ has_credential => has_credential'
        /\ environ' # environ =>
              /\ ~configured
              /\ run'.widget = "config_button" /\ run'.input \in AcceptedKeys
              /\ environ' = [k \in {"OPENAI_API_KEY"} |-> run'.input] ]_vars

C10_Witness ==
    /\ has_credential /\ configured
    /\ run.widget = "reload"
    /\ environ["OPENAI_API_KEY"] = <<"s", "k", "-", "B">>

-----------------------------------------------------------------------------
(* Reload: C3, C4 *)

\* C3 as stated: after reload the processed flag, the query engine, the
\* document count and the transcript are as before any upload: transcript empty.
C3_ReloadRestoresPreUpload ==
    run.widget = "reload"
        => /\ ~processed
           /\ session_state.query_engine = None
           /\ session_state.num_documentos = 0
           /\ has_chat => session_state.chat_history = <<>>

\* C3 amended: reload sets the processed flag to false, the query engine to
\* None and the document count to 0, and leaves the transcript as it was: the
\* pairs answered by the discarded index stay in it.
C3_ReloadKeepsTranscript ==
    [][ run'.widget = "reload"
          => /\ ~processed'
             /\ session_state'.query_engine = None
             /\ session_state'.num_documentos = 0
             /\ has_chat /\ has_chat'
             /\ session_state'.chat_history = session_state.chat_history ]_vars

C3_Witness ==
    /\ run.widget = "reload"
    /\ has_chat /\ Len(session_state.chat_history) = MaxChat
    /\ session_state.num_documentos = 0

\* C4: after reload the query engine is None, the processed flag is false, the
\* run that follows renders the upload section, and the session is still CONFIGURED.
C4_ReloadShowsUpload ==
    run.widget = "reload"
        => /\ session_state.query_engine = None
           /\ ~processed
           /\ screen = "upload"
           /\ configured

C4_Witness ==
    /\ run.widget = "reload" /\ screen = "upload"
    /\ configured /\ session_state.query_engine = None

-----------------------------------------------------------------------------
(* Upload cycle: C5 *)

upload_failed(r) ==
    /\ r.widget = "file_uploader"
    /\ \/ r.exception # "none"
       \/ r.n_documentos = 0
       \/ r.outcome = "indice_raises"

\* C5: an upload cycle that fails (malformed archive, no recognized file, no
\* document extracted, index construction failing) leaves the session state as
\* it was: processed flag, query engine, document count, transcript, configured flag.
C5_FailedUploadKeepsSession ==
    [][ upload_failed(run') => session_state' = session_state ]_vars

C5_Witness ==
    /\ run.widget = "file_uploader" /\ run.outcome = "indice_raises"
    /\ run.n_documentos > 0
    /\ ~processed /\ session_state.num_documentos = 0
    /\ has_chat /\ session_state.chat_history # <<>>

-----------------------------------------------------------------------------
(* Questions: C6, C7 *)

\* C6: a non-empty question asked while an index exists either succeeds, and
\* then exactly one (question, answer) pair is appended at the end of the
\* transcript, or raises, and then the error is reported, the transcript is
\* unchanged and the session stays in the chat section with the same query engine.
C6_QuestionAppendsOrReports ==
    [][ (run'.widget = "enviar" /\ run'.input \notin BlankPerguntas)
          => /\ run'.queried
             /\ run'.outcome = "ok" =>
                   \E resposta \in Respostas :
                       session_state'.chat_history =
                           Append(session_state.chat_history,
                                  [pergunta |-> run'.input, resposta |-> resposta])
             /\ run'.outcome # "ok" =>
                   /\ \E i \in DOMAIN st_out' : st_out'[i].level = "error"
                   /\ session_state'.chat_history = session_state.chat_history
             /\ screen' = "chat"
             /\ processed'
             /\ session_state'.query_engine = session_state.query_engine ]_vars

C6_Witness ==
    /\ run.widget = "enviar" /\ run.outcome = "ok"
    /\ has_chat /\ Len(session_state.chat_history) = MaxChat
    /\ session_state.chat_history[MaxChat].pergunta = run.input
    /\ session_state.chat_history[1].pergunta # run.input

\* C7: a question that is empty or only whitespace is a no-op: the query engine
\* is not invoked and the transcript is unchanged.
C7_BlankQuestionNoOp ==
    [][ (run'.widget = "enviar" /\ run'.input \in BlankPerguntas)
          => /\ ~run'.queried
             /\ has_chat /\ has_chat'
             /\ session_state'.chat_history = session_state.chat_history
             /\ st_out' = <<>> ]_vars

C7_Witness ==
    /\ run.widget = "enviar" /\ run.input = <<" ", "\n">>
    /\ ~run.queried
    /\ has_chat /\ session_state.chat_history # <<>>

-----------------------------------------------------------------------------
(* Dispatcher: C8 *)

\* the names of Arquivos with a recognized extension
RecognizedNames == { <<"a", ".", "p", "d", "f">>, <<"b", ".", "P", "P", "T", "X">> }

PptxNames == { <<"b", ".", "P", "P", "T", "X">> }

recognized(pasta) == {i \in DOMAIN pasta : pasta[i].arquivo \in RecognizedNames}

failing(pasta) == {i \in recognized(pasta) : ~pasta[i].conteudo.ok}

\* the documents the file of entry e is expected to give
expected_docs(e) == IF e.arquivo \in PptxNames THEN 1 ELSE Len(e.conteudo.textos)

docs_of(documentos, arquivo) ==
    SelectSeq(documentos, LAMBDA d : d.metadata.file_name = arquivo)

named(out, level, arquivo) ==
    \E i \in DOMAIN out : out[i].level = level /\ out[i].arg = arquivo

\* what C8 says of the other files and of the count, for a failing file X = pasta[x]
others_extracted(pasta, ret, x) ==
    /\ docs_of(ret.documentos, pasta[x].arquivo) = <<>>
    /\ \A y \in recognized(pasta) \ failing(pasta) :
           Len(docs_of(ret.documentos, pasta[y].arquivo)) = expected_docs(pasta[y])
    /\ \A i \in DOMAIN ret.documentos :
           \E y \in recognized(pasta) \ failing(pasta) :
               ret.documentos[i].metadata.file_name = pasta[y].arquivo
    /\ ret.num_arquivos = Cardinality(recognized(pasta))

dispatched == fn_out.fn = "processar_documentos"

\* C8 as stated: when extraction of a recognized file X fails, a warning naming
\* X is reported, the result holds the documents of every non-failing file and
\* none of X, and the attempted-file count is the number of recognized files.
C8_FailureReportedAsWarning ==
    dispatched =>
        \A x \in failing(fn_in.pasta) :
            /\ named(fn_out.ret.out, "warning", fn_in.pasta[x].arquivo)
            /\ others_extracted(fn_in.pasta, fn_out.ret, x)

\* C8 amended: when extraction of a recognized file X fails, a message naming X
\* is reported (a warning from the dispatcher, or, when X is a presentation,
\* the error processar_pptx displays), the result holds the documents of every
\* non-failing file and none of X, and the attempted-file count is the number
\* of recognized files, X included.
C8_FailureReportedAndSkipped ==
    dispatched =>
        \A x \in failing(fn_in.pasta) :
            /\ named(fn_out.ret.out,
                     IF fn_in.pasta[x].arquivo \in PptxNames THEN "error" ELSE "warning",
                     fn_in.pasta[x].arquivo)
            /\ others_extracted(fn_in.pasta, fn_out.ret, x)

C8_Witness ==
    /\ dispatched
    /\ Len(fn_in.pasta) = MaxFiles
    /\ failing(fn_in.pasta) = {1}
    /\ recognized(fn_in.pasta) = {1, MaxFiles}
    /\ fn_out.ret.num_arquivos = Cardinality({1, MaxFiles})
    /\ fn_out.ret.documentos # <<>>
    /\ named(fn_out.ret.out, "warning", fn_in.pasta[1].arquivo)

-----------------------------------------------------------------------------
(* Presentation extractor: C9 *)

\* the lines of a text: its pieces between line breaks
RECURSIVE Lines(_, _)
Lines(text, line) ==
    IF text = <<>> THEN << line >>
    ELSE IF Head(text) = "\n" THEN << line >> \o Lines(Tail(text), <<>>)
    ELSE Lines(Tail(text), Append(line, Head(text)))

\* the rows of all tables of a presentation, in slide, shape and row order
RECURSIVE rows_of_shapes(_)
rows_of_shapes(shapes) ==
    IF shapes = <<>> THEN <<>>
    ELSE (IF Head(shapes).has_table THEN Head(shapes).rows ELSE <<>>)
         \o rows_of_shapes(Tail(shapes))

RECURSIVE rows_of_slides(_)
rows_of_slides(slides) ==
    IF slides = <<>> THEN <<>>
    ELSE rows_of_shapes(Head(slides)) \o rows_of_slides(Tail(slides))

\* the cell texts of CellTexts, trimmed
trimmed(cell) == IF cell = <<" ", "a", " ">> THEN <<"a">> ELSE <<>>

row_is_blank(row) == \A c \in DOMAIN row : trimmed(row[c]) = <<>>

row_line(row) == table_prefix \o join(cell_separator, [c \in DOMAIN row |-> trimmed(row[c])])

table_lines(text) == SelectSeq(Lines(text, <<>>), LAMBDA l : startswith(l, table_prefix))

expected_table_lines(slides) ==
    LET rows == SelectSeq(rows_of_slides(slides), LAMBDA r : ~row_is_blank(r)) IN
    [i \in DOMAIN rows |-> row_line(rows[i])]

extracted == fn_out.fn = "processar_pptx" /\ fn_in.conteudo.ok

\* C9: a table row whose cells are all empty after trimming, whatever their
\* number, adds no line to the output, and a row with a non-empty cell adds its
\* trimmed cells joined by " | ": the table lines of the output are exactly
\* the lines of the rows that have a non-empty cell, in order.
C9_BlankRowsNeverEmitted ==
    extracted =>
        table_lines(fn_out.ret.doc.text) = expected_table_lines(fn_in.conteudo.prs)

-----------------------------------------------------------------------------
(* The configuration gate: C11, C12 *)

\* C11: CONFIGURED is terminal: once the credential-configured flag is true no
\* configure, upload, ask or reload action makes it false again.
C11_ConfiguredIsTerminal ==
    [][ configured => configured' ]_vars

C11_Witness ==
    /\ configured
    /\ run.widget = "reload"
    /\ has_chat /\ Len(session_state.chat_history) = 1
    /\ next_id > MaxEngines

\* C12: while the session is UNCONFIGURED nothing but credential configuration
\* takes effect: no run handles an upload, a question or a reload, no index is
\* built, no temporary path is created, and the processed flag, the query
\* engine, the document count and the transcript do not exist in the session.
C12_GatedBehindConfigured ==
    ~configured
        => /\ DOMAIN session_state \subseteq {"api_key_configured"}
           /\ run.widget \in {"none", "load", "config_button"}
           /\ screen \in {"none", "modal"}
           /\ next_id = 1
           /\ tmpfs = {}

C12_Witness ==
    /\ ~configured
    /\ config_pressed /\ run.outcome = "llm_raises"
    /\ has_credential
    /\ DOMAIN session_state = {"api_key_configured"}

-----------------------------------------------------------------------------
(* Failures and temporary storage: C13, C14 *)

\* C13: no failure of an upload cycle (a malformed ZIP archive included), of
\* credential configuration, of index construction or of a query leaves main()
\* as an unhandled exception: every run of main() ends without one.
C13_NoFailureEscapesMain ==
    run.exception = "none"

\* C14: when an upload cycle has ended, by success and rerun, by an empty
\* result, by an index-construction failure or by an archive error, neither
\* the temporary ZIP file nor the temporary directory exists.
C14_TempRemovedOnEveryExit ==
    run.widget = "file_uploader" => tmpfs \cap TempPaths = {}

C14_Witness ==
    /\ run.widget = "file_uploader"
    /\ run.exception = "BadZipFile"
    /\ tmpfs = {}

-----------------------------------------------------------------------------
(* The transcript: C15 *)

\* the transcript of a session state: empty while the key does not exist
chat_of(ss) == IF "chat_history" \in DOMAIN ss THEN ss.chat_history ELSE <<>>

\* C15: in every step the old transcript is a prefix of the new one, and the
\* transcript gets longer only in a step taken with the processed flag true
\* and a query engine held.
C15_TranscriptAppendOnly ==
    [][ /\ Len(chat_of(session_state')) >= Len(chat_of(session_state))
        /\ SubSeq(chat_of(session_state'), 1, Len(chat_of(session_state)))
               = chat_of(session_state)
        /\ Len(chat_of(session_state')) > Len(chat_of(session_state))
               => /\ processed
                  /\ session_state.query_engine # None
                  /\ run'.widget = "enviar" ]_vars

C15_Witness ==
    /\ run.widget = "enviar" /\ run.outcome = "ok"
    /\ processed
    /\ session_state.query_engine = QueryEngine(MaxEngines)
    /\ Len(session_state.chat_history) = MaxChat

-----------------------------------------------------------------------------
(* Presentation extractor: C16 *)

header_start == <<"=", "=", "=", " ", "S", "L", "I", "D", "E", " ">>

\* the decimal numerals of 1..9
numeral(n) ==
    << <<"1">>, <<"2">>, <<"3">>, <<"4">>, <<"5">>, <<"6">>, <<"7">>, <<"8">>, <<"9">> >>[n]

header_line(n) == header_start \o numeral(n) \o <<" ", "=", "=", "=">>

header_lines(text) == SelectSeq(Lines(text, <<>>), LAMBDA l : startswith(l, header_start))

\* C16: for a presentation of k slides (k >= 0) the header lines of the
\* extracted text are exactly "=== SLIDE 1 ===" .. "=== SLIDE k ===", in that
\* order, one per slide, and the slide-count metadata and the returned count are k.
C16_OneHeaderPerSlide ==
    extracted =>
        LET k == Len(fn_in.conteudo.prs)
            doc == fn_out.ret.doc
        IN  /\ header_lines(doc.text) = [n \in 1..k |-> header_line(n)]
            /\ doc.metadata.total_slides = k
            /\ fn_out.ret.num_slides = k

C16_Witness ==
    /\ extracted
    /\ Len(fn_in.conteudo.prs) = MaxSlides
    /\ fn_in.conteudo.prs[1] # fn_in.conteudo.prs[MaxSlides]
    /\ fn_out.ret.doc.metadata.total_slides = MaxSlides
    /\ Len(header_lines(fn_out.ret.doc.text)) = MaxSlides

-----------------------------------------------------------------------------
(* The session invariant: C17 *)

\* the processed flag, the query engine and the document count agree
flags_agree ==
    "documentos_processados" \in DOMAIN session_state
        => /\ session_state.documentos_processados <=> (session_state.query_engine # None)
           /\ session_state.documentos_processados <=> (session_state.num_documentos > 0)

\* C17: in every reachable state the processed flag is true exactly when a
\* query engine is held, and exactly then the document count is positive; an
\* upload cycle (and so an index build) starts only when no query engine is
\* held, and a question is only ever sent to a query engine that is held.
C17_ProcessedIffEngineHeld ==
    /\ [](flags_agree /\ (run.queried => (processed /\ session_state.query_engine # None)))
    /\ [][ /\ run'.widget = "file_uploader" =>
                  (~processed /\ session_state.query_engine = None)
           /\ next_id' # next_id =>
                  /\ session_state.query_engine = None
                  /\ session_state'.query_engine = QueryEngine(next_id)
           /\ run'.queried => (processed /\ session_state.query_engine # None) ]_vars

C17_Witness ==
    /\ run.widget = "file_uploader" /\ run.outcome = "ok"
    /\ processed
    /\ session_state.query_engine = QueryEngine(MaxEngines)
    /\ session_state.num_documentos = run.n_documentos
    /\ session_state.num_documentos > 1

====
